---- MODULE Spec2Model ----
(***************************************************************************)
(* Model of the frame relay pipeline of ndi-wayland-screenshare:           *)
(*   main          (src/ndi-wayland-screenshare/src/main.rs:217-257)       *)
(*   pipewire_loop (src/ndi-wayland-screenshare/src/main.rs:45-215)        *)
(*   ndi_loop      (src/ndi-wayland-screenshare/src/main.rs:23-43)         *)
(*   Sender::send, VideoFormat::to_fourcc, Drop for Sender                 *)
(*                 (src/ndi/src/lib.rs)                                    *)
(* Three threads (main, the PipeWire thread, the NDI thread) and the       *)
(* crossbeam channel between the two workers.                              *)
(***************************************************************************)
EXTENDS Integers, Sequences, FiniteSets, TLC

(* ------------------------------ bounds -------------------------------- *)
\* number of frames the transport delivers with a payload
MaxFrames == 2
\* the monotonic clock stops advancing here (milliseconds)
MaxTime == 101

\* amounts the clock may advance by between two steps (milliseconds)
TickSteps == {100, 101}

(* ------------------------- program constants -------------------------- *)
\* Duration::from_millis(100), main.rs:30
StaleMs == 100
\* stride_in_bytes = width * 4, main.rs:40
BytesPerPixel == 4
\* i32::MAX, the largest value `as i32` leaves unchanged (lib.rs:82-86)
I32Max == 2147483647
\* 2^32 / 4: width * 4 in u32 is (width mod 2^30) * 4
U32Quarter == 1073741824

\* NDIlib_FourCC_video_type_e values selected by to_fourcc, lib.rs:125-128
FourCC_RGBA == 1094862674
FourCC_RGBX == 1480738642
FourCC_BGRA == 1095911234
FourCC_BGRX == 1481787202

(* ------------------------------ data ---------------------------------- *)
\* spa VideoInfoRaw::default(): format Unknown, size 0x0, framerate 0/0
DefaultFormat ==
    [format |-> "Unknown", width |-> 0, height |-> 0, num |-> 0, denom |-> 0]

\* formats the transport may settle on, inside the advertised envelope
\* (main.rs:154-193: pixel formats RGBA/RGBx/BGRx/BGRA, sizes in
\* [1x1, 10240x10240]); one whose rows fill the alignment and two that
\* need padding
Geometries ==
    { [format |-> "BGRx", width |-> 1920, height |-> 1080, num |-> 60, denom |-> 1],
      [format |-> "RGBA", width |-> 1366, height |-> 768,  num |-> 30, denom |-> 1],
      [format |-> "RGBx", width |-> 1366, height |-> 768,  num |-> 30, denom |-> 1] }

\* the transport lays rows out on a multiple of this many bytes
RowAlign == 64

\* the slice datas[0].data() yields for the n-th buffer the transport hands
\* over while it runs at format fmt: the whole mapping, rows padded to
\* RowAlign, holding the n-th image
Region(n, fmt) ==
    [px |-> n,
     len |-> (((fmt.width * BytesPerPixel + RowAlign - 1) \div RowAlign) * RowAlign)
               * fmt.height]

\* what a param_changed callback may carry (main.rs:69-92)
ParamKinds == {"absent", "not_format", "unparseable", "audio", "video_not_raw",
               "video_raw", "video_raw_bad"}

\* what dequeue_buffer / datas / data() may yield (main.rs:114-127)
BufferKinds == {"no_buffer", "no_datas", "no_data", "data"}

NoFrame == [id |-> 0]

VARIABLES
    mainPc,       \* position of main
    mainResult,   \* "none" while the process runs, then how it ended
    node_id,      \* stream.pipe_wire_node_id(), 0 before it is known
    fd,           \* the PipeWire remote fd: "none" | "open"
    chan,         \* "none" | "created"
    txAlive,      \* the Sender<OwnedFrame> end exists
    rxAlive,      \* the Receiver<OwnedFrame> end exists
    queue,        \* messages in the channel
    pwPc,         \* position of the PipeWire thread
    pwResult,     \* result of pipewire_loop
    user_data,    \* UserData.format
    ndiPc,        \* position of the NDI thread
    ndiResult,    \* result of ndi_loop
    last_frame,   \* the OwnedFrame held by ndi_loop
    sender,       \* the NDI sender handle: "none" | "live" | "destroyed"
    now,          \* the monotonic clock (ms)
    errlog,       \* workers whose error was printed by eprintln!
    \* ---- history (not read by the program) ----
    captured,     \* captured[id]: frame id as built by the process callback
    accepted,     \* format set by the last accepted param_changed
    enqueued,     \* ids accepted by tx.send, in order
    received,     \* ids returned by rx.recv, in order
    examined,     \* examined[k]: <<id, age>> at the freshness check, in order
    sent,         \* frames handed to send_send_video_v2, in order
    lost,         \* ids of frames dropped without reaching ndi_loop
    failedAt,     \* the negotiation step that failed, "none" if none did
    lastNoop,     \* "skip" / "ignore": the last callback that returned early
    queuedAtClose \* ids in the channel when tx was dropped

vars == <<mainPc, mainResult, node_id, fd, chan, txAlive, rxAlive, queue,
          pwPc, pwResult, user_data, ndiPc, ndiResult, last_frame, sender,
          now, errlog, captured, accepted, enqueued, received,
          examined, sent, lost, failedAt, lastNoop, queuedAtClose>>

mainVars == <<mainPc, mainResult, node_id, fd, chan>>
histVars == <<captured, accepted, enqueued, received, examined, sent,
              lost, failedAt>>
obsVars == <<lastNoop, queuedAtClose>>

Alive == mainResult = "none"

RECURSIVE SeqToSet(_)
SeqToSet(s) == IF s = <<>> THEN {} ELSE {Head(s)} \cup SeqToSet(Tail(s))

Ids(s) == { s[i].id : i \in 1..Len(s) }
IdSeq(s) == [i \in 1..Len(s) |-> s[i].id]

(* --------------------------- initial state ---------------------------- *)
Init ==
    /\ mainPc = "screencast_new"
    /\ mainResult = "none"
    /\ node_id = 0
    /\ fd = "none"
    /\ chan = "none"
    /\ txAlive = FALSE
    /\ rxAlive = FALSE
    /\ queue = <<>>
    /\ pwPc = "unspawned"
    /\ pwResult = "none"
    /\ user_data = DefaultFormat
    /\ ndiPc = "unspawned"
    /\ ndiResult = "none"
    /\ last_frame = NoFrame
    /\ sender = "none"
    /\ now = 0
    /\ errlog = {}
    /\ captured = <<>>
    /\ accepted = DefaultFormat
    /\ enqueued = <<>>
    /\ received = <<>>
    /\ examined = <<>>
    /\ sent = <<>>
    /\ lost = {}
    /\ failedAt = "none"
    /\ lastNoop = "none"
    /\ queuedAtClose = <<>>

(* ------------------------------ main ---------------------------------- *)
\* the awaited negotiation steps of main, in program order (main.rs:219-238)
NegSteps == <<"screencast_new", "create_session", "select_sources", "start",
              "response", "streams", "open_remote">>

NegIndex(pc) == CHOOSE i \in 1..Len(NegSteps) : NegSteps[i] = pc

AfterNeg(pc) ==
    IF NegIndex(pc) = Len(NegSteps) THEN "channel" ELSE NegSteps[NegIndex(pc) + 1]

\* variant: the failure of a step is ignored
NegNext_Ignore(pc, ok) == AfterNeg(pc)

\* where main goes after a negotiation step: on, or out of main when the
\* step failed (`?` returns the Err, unwrap() panics)
NegNext(pc, ok) == IF ok THEN AfterNeg(pc) ELSE "done"

\* One step of the negotiation.  Every step but "streams" ends in `?`: an Err
\* makes main return it.  "streams" is `.iter().next().unwrap()`: an empty
\* stream list panics.
Negotiate ==
    /\ Alive
    /\ mainPc \in SeqToSet(NegSteps)
    /\ \E ok \in BOOLEAN :
         /\ mainPc' = NegNext(mainPc, ok)
         /\ mainResult' = IF mainPc' # "done" THEN mainResult
                          ELSE IF mainPc = "streams" THEN "panic" ELSE "err"
         /\ node_id' = IF ok /\ mainPc = "streams" THEN 42 ELSE node_id
         /\ fd' = IF ok /\ mainPc = "open_remote" THEN "open" ELSE fd
         /\ failedAt' = IF ok THEN failedAt ELSE mainPc
    /\ UNCHANGED <<chan, txAlive, rxAlive, queue, pwPc, pwResult, user_data,
                   ndiPc, ndiResult, last_frame, sender, now, errlog>>
    /\ UNCHANGED <<captured, accepted, enqueued, received, examined,
                   sent, lost>>
    /\ UNCHANGED obsVars

\* let (tx, rx) = crossbeam_channel::unbounded();
CreateChannel ==
    /\ Alive
    /\ mainPc = "channel"
    /\ mainPc' = "spawn_pw"
    /\ chan' = "created"
    /\ txAlive' = TRUE
    /\ rxAlive' = TRUE
    /\ queue' = <<>>
    /\ UNCHANGED <<mainResult, node_id, fd, pwPc, pwResult, user_data,
                   ndiPc, ndiResult, last_frame, sender, now, errlog>>
    /\ UNCHANGED histVars
    /\ UNCHANGED obsVars

\* let pw_thread = std::thread::spawn(move || pipewire_loop(fd, node_id, tx) ...)
SpawnPw ==
    /\ Alive
    /\ mainPc = "spawn_pw"
    /\ mainPc' = "spawn_ndi"
    /\ pwPc' = "main_loop_new"
    /\ UNCHANGED <<mainResult, node_id, fd, chan, txAlive, rxAlive, queue,
                   pwResult, user_data, ndiPc, ndiResult, last_frame, sender,
                   now, errlog>>
    /\ UNCHANGED histVars
    /\ UNCHANGED obsVars

\* let ndi_thread = std::thread::spawn(move || ndi_loop(rx) ...)
SpawnNdi ==
    /\ Alive
    /\ mainPc = "spawn_ndi"
    /\ mainPc' = "join_ndi"
    /\ ndiPc' = "ndilib_new"
    /\ UNCHANGED <<mainResult, node_id, fd, chan, txAlive, rxAlive, queue,
                   pwPc, pwResult, user_data, ndiResult, last_frame, sender,
                   now, errlog>>
    /\ UNCHANGED histVars
    /\ UNCHANGED obsVars

\* variant: join returns without waiting
ThreadFinished_NoWait(pc) == TRUE

\* JoinHandle::join blocks until the thread's closure has ended
ThreadFinished(pc) == pc = "done"

\* ndi_thread.join().unwrap();  blocks until the thread ended, panics if the
\* thread panicked
JoinNdi ==
    /\ Alive
    /\ mainPc = "join_ndi"
    /\ ThreadFinished(ndiPc)
    /\ IF ndiResult = "panic"
       THEN mainPc' = "done" /\ mainResult' = "panic"
       ELSE mainPc' = "join_pw" /\ mainResult' = mainResult
    /\ UNCHANGED <<node_id, fd, chan, txAlive, rxAlive, queue, pwPc, pwResult,
                   user_data, ndiPc, ndiResult, last_frame, sender, now, errlog>>
    /\ UNCHANGED histVars
    /\ UNCHANGED obsVars

\* the value main returns once both joins are through: Ok(()), whatever the
\* workers returned (main.rs:256)
MainReturn(pwR, ndiR) == "ok"

\* pw_thread.join().unwrap(); Ok(())
JoinPw ==
    /\ Alive
    /\ mainPc = "join_pw"
    /\ ThreadFinished(pwPc)
    /\ mainPc' = "done"
    /\ mainResult' = IF pwResult = "panic" THEN "panic"
                     ELSE MainReturn(pwResult, ndiResult)
    /\ UNCHANGED <<node_id, fd, chan, txAlive, rxAlive, queue, pwPc, pwResult,
                   user_data, ndiPc, ndiResult, last_frame, sender, now, errlog>>
    /\ UNCHANGED histVars
    /\ UNCHANGED obsVars

(* ------------------------- the relay channel --------------------------- *)
\* variant: send puts the message at the front
ChanSend_Front(q, f) == <<f>> \o q

\* crossbeam_channel::unbounded: send appends at the back, never blocks, and
\* fails only when the receiver is gone (main.rs:135, 240)
ChanSend(q, f) == Append(q, f)

\* variant: the channel holds one message and send waits for room
SendBlocks_Bounded(q) == Len(q) >= 1

\* whether tx.send has to wait: never, the channel is unbounded (main.rs:240)
SendBlocks(q) == FALSE

\* variant: send does not notice that the receiver is gone
SendDisconnected_Never(rx) == FALSE

\* tx.send returns Err(SendError) exactly when the receiver was dropped; the
\* frame comes back in the error and .ok() drops it (main.rs:135)
SendDisconnected(rx) == ~rx

\* variant: recv leaves the message in the channel
ChanRest_Keep(q) == q

\* recv takes the message at the front (main.rs:28)
ChanFront(q) == Head(q)
ChanRest(q) == Tail(q)

\* variant: recv reports disconnection as soon as tx is gone
ChanClosed_Eager(q, tx) == ~tx

\* rx.recv() returns Err(RecvError) when the channel is empty and tx was
\* dropped (main.rs:28)
ChanClosed(q, tx) == q = <<>> /\ ~tx

(* -------------------------- PipeWire thread --------------------------- *)
\* the fallible calls of pipewire_loop before main_loop.run(), each with `?`
\* (main.rs:46, 47, 48, 54-62, 64-139, 205-210)
PwSteps == <<"main_loop_new", "context_new", "connect_fd", "stream_new",
             "register", "connect">>

PwIndex(pc) == CHOOSE i \in 1..Len(PwSteps) : PwSteps[i] = pc

AfterPw(pc) ==
    IF PwIndex(pc) = Len(PwSteps) THEN "run" ELSE PwSteps[PwIndex(pc) + 1]

\* pipewire_loop is left (return or unwinding): tx is dropped with it, and the
\* thread's closure prints an Err (main.rs:242-246)
PwEnd(result) ==
    /\ pwPc' = "done"
    /\ pwResult' = result
    /\ txAlive' = FALSE
    /\ errlog' = IF result = "err" THEN errlog \cup {"pw"} ELSE errlog
    /\ queuedAtClose' = IdSeq(queue)

PwStartup ==
    /\ Alive
    /\ pwPc \in SeqToSet(PwSteps)
    /\ \E ok \in BOOLEAN :
         IF ok
         THEN /\ pwPc' = AfterPw(pwPc)
              /\ UNCHANGED <<pwResult, txAlive, errlog, queuedAtClose>>
         ELSE PwEnd("err")
    /\ UNCHANGED <<mainVars, rxAlive, queue, user_data, ndiPc, ndiResult,
                   last_frame, sender, now>>
    /\ UNCHANGED histVars
    /\ UNCHANGED lastNoop

\* variant: the media type and subtype are not looked at
ParamAccepted_AnyMedia(kind) == kind \notin {"absent", "not_format", "unparseable"}

\* whether param_changed gets as far as user_data.format.parse(param)
\* (main.rs:70-87)
ParamAccepted(kind) == kind \in {"video_raw", "video_raw_bad"}

\* param_changed (main.rs:69-112) called with a param of the given kind that
\* describes format g.  A param that gets to parse() and does not parse hits
\* .expect(): the panic leaves a callback the C library called, so the process
\* aborts or the thread unwinds (how).
ParamChangedWith(kind, g, how) ==
    /\ Alive
    /\ pwPc = "run"
    /\ IF ~ParamAccepted(kind)
       THEN /\ lastNoop' = "ignore"
            /\ UNCHANGED <<mainPc, mainResult, pwPc, pwResult, txAlive, errlog,
                           user_data, accepted, queuedAtClose>>
       ELSE IF kind = "video_raw_bad"
       THEN /\ IF how = "abort"
               THEN /\ mainPc' = "done"
                    /\ mainResult' = "abort"
                    /\ UNCHANGED <<pwPc, pwResult, txAlive, errlog, queuedAtClose>>
               ELSE /\ PwEnd("panic")
                    /\ UNCHANGED <<mainPc, mainResult>>
            /\ UNCHANGED <<user_data, accepted, lastNoop>>
       ELSE /\ user_data' = g
            /\ accepted' = IF kind = "video_raw" THEN g ELSE accepted
            /\ UNCHANGED <<mainPc, mainResult, pwPc, pwResult, txAlive, errlog,
                           lastNoop, queuedAtClose>>
    /\ UNCHANGED <<node_id, fd, chan, rxAlive, queue, ndiPc, ndiResult,
                   last_frame, sender, now>>
    /\ UNCHANGED <<captured, enqueued, received, examined, sent, lost, failedAt>>

\* the formats a param of the given kind may describe (only read when the
\* callback parses it) and the ways the panic may end (only for one that
\* does not parse)
ParamFormats(kind) ==
    IF ParamAccepted(kind) /\ kind # "video_raw_bad"
    THEN Geometries ELSE {DefaultFormat}
PanicOutcomes(kind) ==
    IF kind = "video_raw_bad" THEN {"abort", "unwind"} ELSE {"abort"}

ParamChanged ==
    \E kind \in ParamKinds :
       \E g \in ParamFormats(kind), how \in PanicOutcomes(kind) :
          ParamChangedWith(kind, g, how)

\* variant: the frame is stamped with the default format
NewFrame_Unstamped(id, fmt, t, d) ==
    [id |-> id, format |-> DefaultFormat, create_time |-> t, data |-> d]

\* OwnedFrame { format: user_data.format, create_time: Instant::now(),
\*              data: data.to_vec() }   (main.rs:129-133)
NewFrame(id, fmt, t, d) ==
    [id |-> id, format |-> fmt, create_time |-> t, data |-> d]

\* variant: a buffer without mapped data is forwarded as an empty frame
HasPayload_Always(kind) == TRUE

\* whether process gets past its early returns: a buffer was dequeued, it has
\* a data region, and the region is mapped (main.rs:114-127)
HasPayload(kind) == kind = "data"

\* process (main.rs:113-138) when the transport hands over a buffer in the
\* given condition: skip when there is no buffer, no data region or no mapped
\* data; otherwise build the frame and tx.send(frame).ok()
Deliver(kind) ==
    /\ Alive
    /\ pwPc = "run"
    /\ IF ~HasPayload(kind)
       THEN /\ lastNoop' = "skip"
            /\ UNCHANGED <<queue, captured, enqueued, lost>>
       ELSE /\ Len(captured) < MaxFrames
            /\ LET d == IF kind = "data" THEN Region(Len(captured) + 1, accepted)
                        ELSE [px |-> 0, len |-> 0]
                   frame == NewFrame(Len(captured) + 1, user_data, now, d)
               IN  /\ captured' = Append(captured,
                                     [id |-> frame.id, format |-> accepted,
                                      create_time |-> now, data |-> d])
                   /\ IF SendDisconnected(rxAlive)
                      THEN /\ lost' = lost \cup {frame.id}
                           /\ UNCHANGED <<queue, enqueued>>
                      ELSE /\ ~SendBlocks(queue)
                           /\ queue' = ChanSend(queue, frame)
                           /\ enqueued' = Append(enqueued, frame.id)
                           /\ lost' = lost
            /\ lastNoop' = lastNoop
    /\ UNCHANGED <<mainVars, txAlive, rxAlive, pwPc, pwResult, user_data,
                   ndiPc, ndiResult, last_frame, sender, now, errlog>>
    /\ UNCHANGED <<accepted, received, examined, sent, failedAt,
                   queuedAtClose>>

Process ==
    \E kind \in BufferKinds : Deliver(kind)

\* main_loop.run() returns; Ok(()) (main.rs:212-214)
MainLoopStops ==
    /\ Alive
    /\ pwPc = "run"
    /\ PwEnd("ok")
    /\ UNCHANGED <<mainVars, rxAlive, queue, user_data, ndiPc, ndiResult,
                   last_frame, sender, now>>
    /\ UNCHANGED histVars
    /\ UNCHANGED lastNoop

(* ----------------------------- NDI thread ----------------------------- *)
\* VideoFormat::to_fourcc (lib.rs:122-131)
to_fourcc(format) ==
    CASE format = "RGBA" -> FourCC_RGBA
      [] format = "RGBX" -> FourCC_RGBX
      [] format = "BGRA" -> FourCC_BGRA
      [] format = "BGRX" -> FourCC_BGRX

\* `x as i32` of a u32
AsI32(x) == IF x <= I32Max THEN x ELSE ((x - I32Max) - 1) - I32Max - 1

\* variant: the comparison is >= instead of >
IsStale_Inclusive(age) == age >= StaleMs

\* last_frame.create_time.elapsed() > Duration::from_millis(100) (main.rs:30)
IsStale(age) == age > StaleMs

\* variant: the stride is the width in pixels
StrideInBytes_Pixels(width) == width % U32Quarter

\* last_frame.format.size().width * 4 in u32 (main.rs:40)
StrideInBytes(width) == (width % U32Quarter) * BytesPerPixel

\* the format field of the ndi::Frame built for a frame (main.rs:38)
FrameFormat(f) == "BGRX"

\* the ndi::Frame ndi_loop builds from last_frame (main.rs:35-41)
NdiFrame(f) ==
    [width |-> f.format.width,
     height |-> f.format.height,
     format |-> FrameFormat(f),
     data |-> f.data,
     stride_in_bytes |-> StrideInBytes(f.format.width)]

\* the NDIlib_video_frame_v2_t Sender::send fills in (lib.rs:80-87)
VideoFrameV2(frame) ==
    [xres |-> AsI32(frame.width),
     yres |-> AsI32(frame.height),
     FourCC |-> to_fourcc(frame.format),
     p_data |-> frame.data,
     line_stride_in_bytes |-> AsI32(frame.stride_in_bytes)]

\* variant: the handle is forgotten instead of destroyed
DropSender_Leak(h) == h

\* Drop for Sender (lib.rs:106-112): send_destroy on the handle, if ndi_loop
\* got as far as owning one
DropSender(h) == IF h = "live" THEN "destroyed" ELSE h

\* ndi_loop is left with an Err: rx, the held frame and the sender are dropped
\* (Drop for Sender, lib.rs:106-112); messages still in the channel go with the
\* receiver; the thread's closure prints the error (main.rs:247-251)
NdiEnd(result) ==
    /\ ndiPc' = "done"
    /\ ndiResult' = result
    /\ rxAlive' = FALSE
    /\ queue' = <<>>
    /\ lost' = lost \cup Ids(queue)
    /\ last_frame' = NoFrame
    /\ sender' = DropSender(sender)
    /\ errlog' = IF result = "err" THEN errlog \cup {"ndi"} ELSE errlog

\* let ndi_lib = NdiLib::new()?;  (main.rs:24, lib.rs:11-38)
NdiLibNew ==
    /\ Alive
    /\ ndiPc = "ndilib_new"
    /\ \E ok \in BOOLEAN :
         IF ok
         THEN /\ ndiPc' = "create_sender"
              /\ UNCHANGED <<ndiResult, rxAlive, queue, lost, last_frame,
                             sender, errlog>>
         ELSE NdiEnd("err")
    /\ UNCHANGED <<mainVars, txAlive, pwPc, pwResult, user_data, now>>
    /\ UNCHANGED <<captured, accepted, enqueued, received, examined, sent,
                   failedAt>>
    /\ UNCHANGED obsVars

\* let sender = ndi_lib.create_sender(...)?;  (main.rs:25, lib.rs:45-71)
\* p_ndi_name is taken from a CString that `name.map(|s| s.as_ptr())` has
\* already dropped (lib.rs:56), so send_create reads freed memory: it may
\* return a handle, return null, or crash the process.
CreateSender ==
    /\ Alive
    /\ ndiPc = "create_sender"
    /\ \E outcome \in {"handle", "null", "crash"} :
         CASE outcome = "handle" ->
                /\ ndiPc' = "recv"
                /\ sender' = "live"
                /\ UNCHANGED <<ndiResult, rxAlive, queue, lost, last_frame,
                               errlog, mainPc, mainResult>>
           [] outcome = "null" ->
                /\ NdiEnd("err")
                /\ UNCHANGED <<mainPc, mainResult>>
           [] outcome = "crash" ->
                /\ mainPc' = "done"
                /\ mainResult' = "abort"
                /\ UNCHANGED <<ndiPc, ndiResult, rxAlive, queue, lost,
                               last_frame, sender, errlog>>
    /\ UNCHANGED <<node_id, fd, chan, txAlive, pwPc, pwResult, user_data, now>>
    /\ UNCHANGED <<captured, accepted, enqueued, received, examined, sent,
                   failedAt>>
    /\ UNCHANGED obsVars

\* what ndi_loop returns when rx.recv() reports disconnection: the `?` hands
\* the RecvError on (main.rs:28)
RecvDisconnected == "err"

\* let mut last_frame = rx.recv()?;  blocks while the channel is empty and tx
\* lives; a message if there is one; disconnection when empty and tx is gone
Recv ==
    /\ Alive
    /\ ndiPc = "recv"
    /\ IF ChanClosed(queue, txAlive)
       THEN /\ NdiEnd(RecvDisconnected)
            /\ UNCHANGED received
       ELSE /\ queue # <<>>
            /\ last_frame' = ChanFront(queue)
            /\ queue' = ChanRest(queue)
            /\ received' = Append(received, ChanFront(queue).id)
            /\ ndiPc' = "check"
            /\ UNCHANGED <<ndiResult, rxAlive, lost, sender, errlog>>
    /\ UNCHANGED <<mainVars, txAlive, pwPc, pwResult, user_data, now>>
    /\ UNCHANGED <<captured, accepted, enqueued, examined, sent, failedAt>>
    /\ UNCHANGED obsVars

\* the freshness check (main.rs:30-33): a stale frame is dropped and the loop
\* goes back to recv
CheckAge ==
    /\ Alive
    /\ ndiPc = "check"
    /\ LET age == now - last_frame.create_time
       IN  /\ examined' = Append(examined, <<last_frame.id, age>>)
           /\ IF IsStale(age)
              THEN /\ ndiPc' = "recv"
                   /\ last_frame' = NoFrame
              ELSE /\ ndiPc' = "send"
                   /\ last_frame' = last_frame
    /\ UNCHANGED <<mainVars, txAlive, rxAlive, queue, pwPc, pwResult, user_data,
                   ndiResult, sender, now, errlog>>
    /\ UNCHANGED <<captured, accepted, enqueued, received, sent, lost,
                   failedAt>>
    /\ UNCHANGED obsVars

\* sender.send(ndi::Frame {...}) (main.rs:35-41, lib.rs:80-94), then the frame
\* goes out of scope at the end of the loop body
Send ==
    /\ Alive
    /\ ndiPc = "send"
    /\ sent' = Append(sent, [id |-> last_frame.id,
                             handle |-> sender,
                             frame |-> NdiFrame(last_frame),
                             v2 |-> VideoFrameV2(NdiFrame(last_frame))])
    /\ last_frame' = NoFrame
    /\ ndiPc' = "recv"
    /\ UNCHANGED <<mainVars, txAlive, rxAlive, queue, pwPc, pwResult, user_data,
                   ndiResult, sender, now, errlog>>
    /\ UNCHANGED <<captured, accepted, enqueued, received, examined, lost,
                   failedAt>>
    /\ UNCHANGED obsVars

(* ------------------------------ the clock ----------------------------- *)
\* a frame is on its way to the freshness check
InFlight == queue # <<>> \/ ndiPc = "check"

\* Time passes.  The program reads the clock only as the difference
\* create_time.elapsed(), so the clock is advanced only while a frame that
\* will be measured is in flight.
Tick ==
    /\ Alive
    /\ InFlight
    /\ \E d \in TickSteps :
         /\ now + d <= MaxTime
         /\ now' = now + d
    /\ UNCHANGED <<mainVars, txAlive, rxAlive, queue, pwPc, pwResult, user_data,
                   ndiPc, ndiResult, last_frame, sender, errlog>>
    /\ UNCHANGED histVars
    /\ UNCHANGED obsVars

(* --------------------------- specification ---------------------------- *)
Next ==
    \/ Negotiate
    \/ CreateChannel
    \/ SpawnPw
    \/ SpawnNdi
    \/ JoinNdi
    \/ JoinPw
    \/ PwStartup
    \/ ParamChanged
    \/ Process
    \/ MainLoopStops
    \/ NdiLibNew
    \/ CreateSender
    \/ Recv
    \/ CheckAge
    \/ Send
    \/ Tick

Spec == Init /\ [][Next]_vars

\* Main and both worker threads are scheduled fairly, the clock advances, and
\* the transport keeps delivering buffers while its loop runs.  What the
\* transport sends as a format (ParamChanged) is up to it, and nothing in the
\* program stops main_loop.run() (MainLoopStops): neither carries fairness.
FairSpec ==
    /\ Spec
    /\ WF_vars(Negotiate) /\ WF_vars(CreateChannel)
    /\ WF_vars(SpawnPw) /\ WF_vars(SpawnNdi)
    /\ WF_vars(JoinNdi) /\ WF_vars(JoinPw)
    /\ WF_vars(PwStartup) /\ WF_vars(Process)
    /\ WF_vars(NdiLibNew) /\ WF_vars(CreateSender)
    /\ WF_vars(Recv) /\ WF_vars(CheckAge) /\ WF_vars(Send)
    /\ WF_vars(Tick)

(* ------------------------------ claims -------------------------------- *)
\* how many times frame id was handed to the network sender
CountSent(id) == Cardinality({ i \in 1..Len(sent) : sent[i].id = id })

\* how many times frame id was returned by rx.recv()
CountReceived(id) == Cardinality({ i \in 1..Len(received) : received[i] = id })

\* frame id was examined and found stale
DroppedStale(id) ==
    \E k \in 1..Len(examined) : examined[k][1] = id /\ examined[k][2] > StaleMs

RECURSIVE IsSubseq(_, _)
\* a is b with some elements left out
IsSubseq(a, b) ==
    IF a = <<>> THEN TRUE
    ELSE IF b = <<>> THEN FALSE
    ELSE IF Head(a) = Head(b) THEN IsSubseq(Tail(a), Tail(b))
    ELSE IsSubseq(a, Tail(b))

\* C1: a frame whose age at the freshness check is at most 100 ms is handed to
\* the network sender exactly once (or ndi_loop is about to hand it over), a
\* frame whose age is above 100 ms is never handed over, and nothing is sent
\* that was not examined and found fresh; an age of exactly 100 ms counts as
\* fresh.
C1_Freshness ==
    /\ \A k \in 1..Len(examined) :
         LET id == examined[k][1]
             age == examined[k][2]
         IN  IF age <= StaleMs
             THEN \/ CountSent(id) = 1
                  \/ CountSent(id) = 0 /\ ndiPc = "send" /\ last_frame.id = id
             ELSE CountSent(id) = 0
    /\ \A i \in 1..Len(sent) :
         \E k \in 1..Len(examined) :
            examined[k][1] = sent[i].id /\ examined[k][2] <= StaleMs

\* C1 witness: a frame examined at exactly 100 ms was sent and ndi_loop went on.
C1_Witness ==
    /\ \E k \in 1..Len(examined) :
         examined[k][2] = StaleMs /\ CountSent(examined[k][1]) = 1
    /\ ndiPc = "recv"

\* C2: the frames rx.recv() returned are, in order, the first frames tx.send
\* accepted, the channel holds the following ones in order, and the frames
\* handed to the network sender are a subsequence of the received ones.
C2_Ordering ==
    /\ Len(received) <= Len(enqueued)
    /\ received = SubSeq(enqueued, 1, Len(received))
    /\ rxAlive => received \o IdSeq(queue) = enqueued
    /\ IsSubseq([i \in 1..Len(sent) |-> sent[i].id], received)

\* C2 witness: two frames went through the channel and both were sent.
C2_Witness == Len(received) >= 2 /\ Len(sent) >= 2

\* C3: a frame is in at most one place (the channel, ndi_loop's hands, or
\* consumed), is received at most once and sent at most once, and every
\* frame ndi_loop received is accounted for exactly once: held, sent, or
\* dropped as stale.
C3_NoDuplication ==
    /\ \A i, j \in 1..Len(queue) : queue[i].id = queue[j].id => i = j
    /\ last_frame.id \notin Ids(queue)
    /\ \A i \in 1..Len(sent) :
         sent[i].id \notin Ids(queue) /\ sent[i].id # last_frame.id
    /\ \A id \in 1..Len(captured) :
         /\ CountReceived(id) <= 1
         /\ CountSent(id) <= 1
         /\ id \in Ids(queue) => CountReceived(id) = 0
         /\ CountReceived(id) = 1 =>
              ( (IF last_frame.id = id THEN 1 ELSE 0)
                + CountSent(id)
                + (IF DroppedStale(id) THEN 1 ELSE 0) ) = 1

\* C3 witness: of two received frames one was dropped as stale, the other sent.
C3_Witness ==
    /\ Len(received) >= 2
    /\ \E id \in 1..Len(captured) : DroppedStale(id) /\ CountSent(id) = 0
    /\ \E id \in 1..Len(captured) : CountSent(id) = 1
    /\ last_frame = NoFrame

\* C4: when ndi_loop ends because the producer closed the channel (it had
\* created its sender, so it ended in the receive loop), it returns success
\* and no error is printed for it.
C4_ChannelClosedTermination ==
    (ndiPc = "done" /\ sender = "destroyed")
        => (ndiResult = "ok" /\ "ndi" \notin errlog)

\* C5: every frame handed to the network sender carries the pixel format of
\* its geometry snapshot: RGBA as RGBA, RGBx as RGBX, BGRA as BGRA, BGRx as
\* BGRX, in the descriptor and in the FourCC on the wire.
C5_PixelFormatPassThrough ==
    \A i \in 1..Len(sent) :
       LET snap == captured[sent[i].id].format.format
           want == CASE snap = "RGBA" -> "RGBA"
                     [] snap = "RGBx" -> "RGBX"
                     [] snap = "BGRA" -> "BGRA"
                     [] snap = "BGRx" -> "BGRX"
                     [] OTHER -> "none"
       IN  want # "none" =>
              /\ sent[i].frame.format = want
              /\ sent[i].v2.FourCC = to_fourcc(want)

\* the frames that exist: in the channel or held by ndi_loop
LiveFrames ==
    { queue[i] : i \in 1..Len(queue) }
        \cup (IF last_frame = NoFrame THEN {} ELSE {last_frame})

\* C6: a frame in the channel or in ndi_loop carries the format the last
\* accepted param_changed had set when the frame was captured (the default
\* before any), whatever param_changed did since.
C6_GeometryConsistency ==
    \A f \in LiveFrames : f.format = captured[f.id].format

\* C6 witness: a frame captured under a negotiated format is still in flight
\* after a later param_changed set another format.
C6_Witness ==
    \E f \in LiveFrames :
       /\ f.format \in Geometries
       /\ user_data \in Geometries
       /\ f.format # user_data

\* C7: every frame handed to the network sender has the width and height of
\* its geometry snapshot, a stride of width * 4, and the bytes copied at
\* capture, in the descriptor and in the struct given to the library.
C7_DescriptorGeometry ==
    \A i \in 1..Len(sent) :
       LET snap == captured[sent[i].id]
       IN  /\ sent[i].frame.width = snap.format.width
           /\ sent[i].frame.height = snap.format.height
           /\ sent[i].frame.stride_in_bytes = snap.format.width * 4
           /\ sent[i].frame.data = snap.data
           /\ sent[i].v2.xres = snap.format.width
           /\ sent[i].v2.yres = snap.format.height
           /\ sent[i].v2.line_stride_in_bytes = snap.format.width * 4
           /\ sent[i].v2.p_data = snap.data

\* C7 witness: a 1920x1080 frame was sent with stride 7680.
C7_Witness ==
    \E i \in 1..Len(sent) :
       /\ sent[i].frame.width = 1920
       /\ sent[i].frame.height = 1080
       /\ sent[i].frame.stride_in_bytes = 7680

\* C8: once either worker has ended, the process eventually ends.
C8_TerminationEndsProcess ==
    (pwPc = "done" \/ ndiPc = "done") ~> (mainResult # "none")

\* C9: when a worker ended with a startup or session error (any Err of
\* pipewire_loop, or ndi_loop failing before its sender exists) and main is
\* through, main's result is a failure.
C9_WorkerErrorsReachCoordinator ==
    ( /\ mainPc = "done"
      /\ \/ pwResult = "err"
         \/ ndiResult = "err" /\ sender = "none" )
        => mainResult \in {"err", "panic", "abort"}

C11_JoinBarrier ==
    mainResult \in {"ok", "err"} =>
        /\ pwPc \in {"unspawned", "done"}
        /\ ndiPc \in {"unspawned", "done"}
        /\ (mainResult = "ok" => pwPc = "done" /\ ndiPc = "done")

\* C11 witness: main returned Ok after both workers had ended.
C11_Witness == mainResult = "ok" /\ pwPc = "done" /\ ndiPc = "done"

\* C12: every frame that is in the channel, held by ndi_loop or handed to the
\* network sender has a width and a height above zero.
C12_PositiveGeometry ==
    /\ \A f \in LiveFrames : f.format.width > 0 /\ f.format.height > 0
    /\ \A i \in 1..Len(sent) :
         sent[i].frame.width > 0 /\ sent[i].frame.height > 0

\* C13: the bytes of every frame number exactly width * height * 4 of the
\* frame's own format, and a descriptor handed to the network sender never
\* spans more bytes (height * stride) than its data holds.
C13_BufferSizeMatchesGeometry ==
    /\ \A f \in LiveFrames :
         f.data.len = f.format.width * f.format.height * 4
    /\ \A i \in 1..Len(sent) :
         /\ sent[i].frame.data.len = sent[i].frame.width * sent[i].frame.height * 4
         /\ sent[i].frame.height * sent[i].frame.stride_in_bytes
               <= sent[i].frame.data.len

\* C14: once the receiving end of the channel is gone while the capture loop
\* runs, the capture loop eventually ends.
C14_ForwardingFailureEndsLoop ==
    (chan = "created" /\ ~rxAlive /\ pwPc = "run")
        ~> (pwPc = "done" \/ mainResult # "none")

\* C15: a process callback that finds no buffer, no data region or no mapped
\* data builds no frame, leaves the channel, its history and the current
\* format as they are, and leaves the capture loop running.
C15_SkippedDeliveries ==
    [][ \A kind \in {"no_buffer", "no_datas", "no_data"} :
          Deliver(kind) =>
             /\ captured' = captured
             /\ queue' = queue
             /\ enqueued' = enqueued
             /\ lost' = lost
             /\ user_data' = user_data
             /\ pwPc' = "run"
             /\ mainResult' = "none" ]_vars

\* C15 witness: a delivery was skipped while the loop runs with a frame in the
\* channel.
C15_Witness == lastNoop = "skip" /\ pwPc = "run" /\ queue # <<>>

\* C16: a param_changed callback whose param is absent, is not a Format
\* param, does not parse as a format, or is not video/raw leaves
\* user_data.format, the channel and the capture loop as they are.
C16_NonVideoIgnored ==
    [][ \A kind \in {"absent", "not_format", "unparseable", "audio", "video_not_raw"} :
          \A g \in ParamFormats(kind), how \in PanicOutcomes(kind) :
             ParamChangedWith(kind, g, how) =>
                /\ user_data' = user_data
                /\ queue' = queue
                /\ captured' = captured
                /\ pwPc' = "run"
                /\ mainResult' = "none" ]_vars

\* C16 witness: after a negotiated format a param was ignored, and a frame
\* in flight carries the format that is still current.
C16_Witness ==
    /\ lastNoop = "ignore"
    /\ user_data \in Geometries
    /\ \E f \in LiveFrames : f.format = user_data

\* C17: whenever the capture loop runs, the process callback can take a
\* buffer with data, build the frame and finish, whatever the channel holds
\* and wherever ndi_loop is.
C17_NoBackpressure ==
    (mainResult = "none" /\ pwPc = "run" /\ Len(captured) < MaxFrames)
        => ENABLED Deliver("data")

\* C17 witness: the capture loop runs with a frame already waiting in the
\* channel that ndi_loop is not about to take.
C17_Witness ==
    /\ mainResult = "none" /\ pwPc = "run" /\ Len(captured) < MaxFrames
    /\ queue # <<>>
    /\ ndiPc # "recv"

C19_SenderLifecycle ==
    /\ [](/\ \A i \in 1..Len(sent) : sent[i].handle = "live"
          /\ (ndiPc \in {"unspawned", "ndilib_new", "create_sender"} => sender = "none")
          /\ (ndiPc \in {"recv", "check", "send"} => sender = "live")
          /\ (ndiPc = "done" => sender \in {"none", "destroyed"})
          /\ (sender = "none" => sent = <<>>))
    /\ [][ /\ (sender = "destroyed" => sender' = "destroyed" /\ sent' = sent)
           /\ (sender' = "destroyed" /\ sender # "destroyed" =>
                 sender = "live" /\ ndiPc' = "done")
           /\ (sender' # sender \/ sent' # sent =>
                 ndiPc' # ndiPc /\ pwPc' = pwPc /\ mainPc' = mainPc) ]_vars

\* C19 witness: a handle was created, used for a send and destroyed.
C19_Witness == sender = "destroyed" /\ Len(sent) >= 1

\* C20: once the receiver is gone the channel is empty and stays as it is;
\* a frame captured from then on is dropped at once, and the capture loop and
\* the process go on.
C20_DiscardAfterConsumerGone ==
    /\ []((chan = "created" /\ ~rxAlive) => queue = <<>>)
    /\ [][ (chan = "created" /\ ~rxAlive) =>
             /\ queue' = queue
             /\ enqueued' = enqueued
             /\ ~rxAlive'
             /\ (captured' # captured =>
                   /\ Len(captured') \in lost'
                   /\ pwPc' = "run"
                   /\ mainResult' = "none") ]_vars

\* C20 witness: with the receiver gone and the capture loop running, a frame
\* was captured and dropped without entering the channel.
C20_Witness ==
    /\ ~rxAlive /\ pwPc = "run"
    /\ \E id \in lost : id \notin SeqToSet(enqueued)

====
